---- MODULE Spec2Model ----
(***************************************************************************)
(* DUI checkpoint mobile app: the checkpoint query service                 *)
(* (lib/api/checkpoints.ts), the remote "Checkpoints" table it reads and   *)
(* writes, the two data-fetch hooks (hooks/use-checkpoints.ts) and the      *)
(* date utilities (lib/utils/checkpoint-utils.ts); the load of the store    *)
(* client (lib/supabase/client.ts), the checkpoint list                     *)
(* (components/checkpoint-list.tsx) and the two map pages                   *)
(* (components/map-view.tsx).                                               *)
(*                                                                         *)
(* Encodings.                                                              *)
(*   - A nullable / optional value is a sequence of length <= 1:           *)
(*     Null (<<>>) is null or undefined, Some(x) (<<x>>) is the value x.   *)
(*   - A text value that is matched (State, City, County and the filters   *)
(*     on them) is a sequence of one-character strings.                    *)
(*   - A date string "YYYY-MM-DD" is the triple <<y, m, d>> of its fields. *)
(*   - An instant is a number of hours since 1970-01-01T00:00Z; a device   *)
(*     time zone is its offset from UTC in hours (east positive). The      *)
(*     device clock and zone are inputs of each step that reads the time   *)
(*     (new Date()).                                                       *)
(*   - A response envelope is a record; 'error' in result is               *)
(*     "error" \in DOMAIN result.                                          *)
(***************************************************************************)
EXTENDS Integers, Sequences, FiniteSets, TLC

VARIABLES
    table,            \* the remote "Checkpoints" table: a set of rows
    nextId,           \* the table's BIGSERIAL id sequence
    req,              \* the last direct call of the query service
    resp,             \* the envelope that call returned
    hook,             \* which hook the component under observation uses
    filters,          \* useCheckpoints: the filters prop of the last render
    useCheckpoints,   \* useCheckpoints: [checkpoints, count, loading, error]
    idProp,           \* useCheckpoint: the id prop of the last render
    useCheckpoint,    \* useCheckpoint: [checkpoint, loading, error]
    autoFetch,        \* the autoFetch prop of the last render
    inflight,         \* the hook's fetches that have not resolved, oldest first
    last,             \* the hook's last step: what it was, the remote calls it
                      \* issued, the props and error before it, the envelope
                      \* it delivered and whether data was held before it
    util,             \* the last call of a date utility: its argument, the
                      \* device clock and zone it ran under, what it returned
    client,           \* the store client module (lib/supabase/client.ts): how
                      \* its load went
    checkpointList,   \* the last render of CheckpointList: its props, the
                      \* clock, the entries it showed
    geo,              \* the map page's addMarkers loop: the checkpoints it
                      \* was generated with, its position, the geocoding
                      \* requests it made, the markers it placed
    webview           \* the WebView map: the page's script and timers, the
                      \* messages posted and not yet handled, isLoading

vars == <<table, nextId, req, resp, hook, filters, useCheckpoints,
          idProp, useCheckpoint, autoFetch, inflight, last, util, client,
          checkpointList, geo, webview>>

apiVars == <<table, nextId, req, resp>>
hookVars == <<hook, filters, useCheckpoints, idProp, useCheckpoint, autoFetch,
              inflight, last>>
compVars == <<client, checkpointList, geo, webview>>

----------------------------------------------------------------------------
(* Bounds of the model *)

\* Rows the id sequence may hand out before createCheckpoint is disabled.
MaxId == 2

\* Fetches one hook instance may have in flight at once.
MaxInFlight == 2

\* 'error' events one map may emit.
MaxMapErrors == 1

\* Messages, other than the page script's own, posted to one WebView.
MaxInjected == 1

----------------------------------------------------------------------------
(* Optional values *)

Null == <<>>

Some(x) == <<x>>

IsNull(v) == v = <<>>

Val(v) == v[1]

----------------------------------------------------------------------------
(* Calendar: JavaScript Date arithmetic on the proleptic Gregorian calendar *)

HoursPerDay == 24

\* Days since 1970-01-01 of the civil date y-m-d.
DaysFromCivil(y, m, d) ==
    LET yy  == IF m <= 2 THEN y - 1 ELSE y
        era == yy \div 400
        yoe == yy - era * 400
        mp  == IF m > 2 THEN m - 3 ELSE m + 9
        doy == (153 * mp + 2) \div 5 + d - 1
        doe == yoe * 365 + yoe \div 4 - yoe \div 100 + doy
    IN  era * 146097 + doe - 719468

\* The civil date <<y, m, d>> of day number z (days since 1970-01-01).
CivilFromDays(z) ==
    LET zz  == z + 719468
        era == zz \div 146097
        doe == zz - era * 146097
        yoe == (doe - doe \div 1460 + doe \div 36524 - doe \div 146096) \div 365
        doy == doe - (365 * yoe + yoe \div 4 - yoe \div 100)
        mp  == (5 * doy + 2) \div 153
        d   == doy - (153 * mp + 2) \div 5 + 1
        m   == IF mp < 10 THEN mp + 3 ELSE mp - 9
        y   == yoe + era * 400 + (IF m <= 2 THEN 1 ELSE 0)
    IN  <<y, m, d>>

\* new Date().toISOString().split('T')[0]: the UTC calendar date of the instant.
ToISODate(now) == CivilFromDays(now \div HoursPerDay)

\* The calendar date the device shows at the instant: its local day.
LocalDate(now, offset) == CivilFromDays((now + offset) \div HoursPerDay)

\* Postgres DATE comparison a >= b.
DateGte(a, b) ==
    DaysFromCivil(a[1], a[2], a[3]) >= DaysFromCivil(b[1], b[2], b[3])

DateLt(a, b) == ~DateGte(a, b)

----------------------------------------------------------------------------
(* Text and Postgres ILIKE *)

\* Lower-case form of a character, as ILIKE folds it.
Lower(c) ==
    CASE c = "C" -> "c"
      [] c = "A" -> "a"
      [] c = "N" -> "n"
      [] c = "V" -> "v"
      [] c = "L" -> "l"
      [] OTHER   -> c

\* s LIKE p with case folded: % matches any run of characters, _ any one.
RECURSIVE ILike(_, _)
ILike(s, p) ==
    IF p = <<>> THEN s = <<>>
    ELSE IF Head(p) = "%"
         THEN ILike(s, Tail(p)) \/ (s # <<>> /\ ILike(Tail(s), p))
    ELSE IF s = <<>> THEN FALSE
    ELSE IF Head(p) = "_" THEN ILike(Tail(s), Tail(p))
    ELSE Lower(Head(s)) = Lower(Head(p)) /\ ILike(Tail(s), Tail(p))

\* A JavaScript string is truthy when it is not undefined and not empty.
Truthy(v) == ~IsNull(v) /\ Val(v) # <<>>

----------------------------------------------------------------------------
(* The remote table and the store's replies (Supabase / PostgREST) *)

CA == <<"C", "A">>
NV == <<"N", "V">>
LA == <<"L", "A">>

\* The calendar day the sample data is laid around.
Day0 == DaysFromCivil(2024, 12, 25)

\* Checkpoint data as createCheckpoint receives it: a row without its id.
CheckpointData ==
    { [Date |-> CivilFromDays(Day0 - 1), State |-> CA, City |-> LA, County |-> LA],
      [Date |-> CivilFromDays(Day0), State |-> NV, City |-> <<"L", "V">>, County |-> CA] }

WithId(data, id) ==
    [id |-> id, Date |-> data.Date, State |-> data.State, City |-> data.City,
     County |-> data.County]

\* Partial<Checkpoint> values updateCheckpoint is called with.
Updates == { [Date |-> CivilFromDays(Day0 + 1)] }

ApplyUpdates(row, updates) ==
    [k \in DOMAIN row |-> IF k \in DOMAIN updates THEN updates[k] ELSE row[k]]

NoFilters == [state |-> Null, city |-> Null, county |-> Null, upcoming |-> Null]

\* What the store, or the transport to it, does with one request.
\*   none: answers from its data       nodata: answers with data = null
\*   store: reports an error           throwError / throwOther: the client
\*   call throws an Error / a value that is not an Error
Faults == {"none", "nodata", "store", "throwError", "throwOther"}

SingleFaults == Faults \ {"nodata"}

StoreError == [code |-> "42501", message |-> "permission denied for table Checkpoints"]

\* PostgREST's error for .single() when the result is not exactly one row.
NotSingleError ==
    [code |-> "PGRST116",
     message |-> "JSON object requested, multiple (or no) rows returned"]

Reply(data, error) == [threw |-> "no", message |-> "", data |-> data, error |-> error]

Thrown(fault) ==
    [threw |-> IF fault = "throwError" THEN "Error" ELSE "other",
     message |-> "Network request failed", data |-> Null, error |-> Null]

\* The filter the query builder has accumulated: ILIKE patterns and a lower
\* bound on Date.
Matches(row, query) ==
    /\ IsNull(query.state) \/ ILike(row.State, Val(query.state))
    /\ IsNull(query.city) \/ ILike(row.City, Val(query.city))
    /\ IsNull(query.county) \/ ILike(row.County, Val(query.county))
    /\ IsNull(query.gte) \/ DateGte(row.Date, Val(query.gte))

\* A select without the order clause: rows come in id order.
OrderById(rows) ==
    { s \in [1..Cardinality(rows) -> rows] :
        \A i, j \in DOMAIN s : i < j => s[i].id < s[j].id }

\* .order('Date', {ascending: true}): every listing of rows by Date ascending
\* (rows of one Date come in an order the store chooses).
OrderByDate(rows) ==
    { s \in [1..Cardinality(rows) -> rows] :
        /\ \A i, j \in DOMAIN s : i # j => s[i] # s[j]
        /\ \A i, j \in DOMAIN s : i < j => DateGte(s[j].Date, s[i].Date) }

\* The replies the store may give to select('*') with the query's filters.
SelectReplies(query, tbl, fault) ==
    CASE fault = "none"   -> { Reply(Some(s), Null) :
                                 s \in OrderByDate({r \in tbl : Matches(r, query)}) }
      [] fault = "nodata" -> { Reply(Null, Null) }
      [] fault = "store"  -> { Reply(Null, Some(StoreError)) }
      [] OTHER            -> { Thrown(fault) }

\* .single(): the one row, or PGRST116 when there is not exactly one.
Single(rows, fault) ==
    CASE fault = "none"  -> IF Cardinality(rows) = 1
                            THEN Reply(Some(CHOOSE r \in rows : TRUE), Null)
                            ELSE Reply(Null, Some(NotSingleError))
      [] fault = "store" -> Reply(Null, Some(StoreError))
      [] OTHER           -> Thrown(fault)

\* select('*').eq('id', id).single()
SelectByIdReply(id, tbl, fault) == Single({r \in tbl : r.id = id}, fault)

\* insert([checkpoint]).select().single(): the row gets the next id.
InsertReply(data, id, fault) == Single({WithId(data, id)}, fault)

InsertTable(data, id, tbl, fault) ==
    IF fault = "none" THEN tbl \cup {WithId(data, id)} ELSE tbl

\* update(updates).eq('id', id).select().single()
UpdateTable(id, updates, tbl, fault) ==
    IF fault = "none"
    THEN {IF r.id = id THEN ApplyUpdates(r, updates) ELSE r : r \in tbl}
    ELSE tbl

UpdateReply(id, updates, tbl, fault) ==
    Single({ApplyUpdates(r, updates) : r \in {x \in tbl : x.id = id}}, fault)

\* delete().eq('id', id): no rows are asked back, so the store answers with
\* no data and no error however many rows the filter matched.
DeleteTable(id, tbl, fault) ==
    IF fault = "none" THEN {r \in tbl : r.id # id} ELSE tbl

DeleteReply(id, tbl, fault) ==
    CASE fault = "none"  -> Reply(Null, Null)
      [] fault = "store" -> Reply(Null, Some(StoreError))
      [] OTHER           -> Thrown(fault)

----------------------------------------------------------------------------
(* The query service: lib/api/checkpoints.ts *)

\* The catch block every operation ends with.
\* A catch block that reads error.message without the instanceof test.
InternalErrorNoInstanceCheck(reply) ==
    [error |-> "Internal server error", details |-> reply.message]

InternalError(reply) ==
    [error |-> "Internal server error",
     details |-> IF reply.threw = "Error" THEN reply.message ELSE "Unknown error"]

\* getCheckpoints up to its await: the query built from the filters. The
\* upcoming bound is read from the device clock while the query is built.
BuildQuery(f, now) ==
    [state  |-> IF Truthy(f.state) THEN f.state ELSE Null,
     city   |-> IF Truthy(f.city) THEN Some(<<"%">> \o Val(f.city) \o <<"%">>) ELSE Null,
     county |-> IF Truthy(f.county) THEN Some(<<"%">> \o Val(f.county) \o <<"%">>) ELSE Null,
     gte    |-> IF f.upcoming = Some(TRUE) THEN Some(ToISODate(now)) ELSE Null]

\* getCheckpoints without its `if (error)` branch: a reported store error
\* falls through to the success envelope.
GetCheckpointsResultNoErrorCheck(reply) ==
    IF reply.threw # "no" THEN InternalError(reply)
    ELSE [success |-> TRUE,
          count |-> IF IsNull(reply.data) THEN 0 ELSE Len(Val(reply.data)),
          checkpoints |-> IF IsNull(reply.data) THEN <<>> ELSE Val(reply.data)]

\* getCheckpoints from its await on: the envelope made of the store's reply.
\* A result that reports an empty or missing list as an error.
GetCheckpointsResultEmptyIsError(reply) ==
    IF reply.threw # "no" THEN InternalError(reply)
    ELSE IF ~IsNull(reply.error)
    THEN [error |-> "Failed to fetch checkpoints", details |-> Val(reply.error).message]
    ELSE IF IsNull(reply.data) \/ Val(reply.data) = <<>>
    THEN [error |-> "No checkpoints found"]
    ELSE [success |-> TRUE, count |-> Len(Val(reply.data)), checkpoints |-> Val(reply.data)]

GetCheckpointsResult(reply) ==
    IF reply.threw # "no" THEN InternalError(reply)
    ELSE IF ~IsNull(reply.error)
    THEN [error |-> "Failed to fetch checkpoints", details |-> Val(reply.error).message]
    ELSE [success |-> TRUE,
          count |-> IF IsNull(reply.data) THEN 0 ELSE Len(Val(reply.data)),
          checkpoints |-> IF IsNull(reply.data) THEN <<>> ELSE Val(reply.data)]

\* The envelopes getCheckpoints(f) may return at instant now on table tbl.
getCheckpoints(f, now, tbl, fault) ==
    { GetCheckpointsResult(reply) : reply \in SelectReplies(BuildQuery(f, now), tbl, fault) }

\* The error branch without its PGRST116 case: absence is reported as the
\* generic failure.
SingleResultNoNotFound(reply, failure) ==
    IF reply.threw # "no" THEN InternalError(reply)
    ELSE IF ~IsNull(reply.error)
    THEN [error |-> failure, details |-> Val(reply.error).message]
    ELSE [success |-> TRUE, checkpoint |-> Val(reply.data)]

\* The error branch shared by getCheckpointById and updateCheckpoint.
SingleResult(reply, failure) ==
    IF reply.threw # "no" THEN InternalError(reply)
    ELSE IF ~IsNull(reply.error)
    THEN IF Val(reply.error).code = "PGRST116"
         THEN [error |-> "Checkpoint not found"]
         ELSE [error |-> failure, details |-> Val(reply.error).message]
    ELSE [success |-> TRUE, checkpoint |-> Val(reply.data)]

getCheckpointById(id, tbl, fault) ==
    SingleResult(SelectByIdReply(id, tbl, fault), "Failed to fetch checkpoint")

createCheckpoint(data, id, fault) ==
    LET reply == InsertReply(data, id, fault)
    IN  IF reply.threw # "no" THEN InternalError(reply)
        ELSE IF ~IsNull(reply.error)
        THEN [error |-> "Failed to create checkpoint", details |-> Val(reply.error).message]
        ELSE [success |-> TRUE, checkpoint |-> Val(reply.data)]

updateCheckpoint(id, updates, tbl, fault) ==
    SingleResult(UpdateReply(id, updates, tbl, fault), "Failed to update checkpoint")

deleteCheckpoint(id, tbl, fault) ==
    LET reply == DeleteReply(id, tbl, fault)
    IN  IF reply.threw # "no" THEN InternalError(reply)
        ELSE IF ~IsNull(reply.error)
        THEN IF Val(reply.error).code = "PGRST116"
             THEN [error |-> "Checkpoint not found"]
             ELSE [error |-> "Failed to delete checkpoint", details |-> Val(reply.error).message]
        ELSE [success |-> TRUE]

----------------------------------------------------------------------------
(* Direct calls of the query service, each awaited to its envelope *)

\* Filters the service is called with; the last two hold the characters _
\* and a caller may type into a search field.
Filters ==
    { NoFilters,
      [NoFilters EXCEPT !.upcoming = Some(TRUE)],
      [NoFilters EXCEPT !.upcoming = Some(FALSE)],
      [NoFilters EXCEPT !.state = Some(<<"c", "a">>), !.upcoming = Some(TRUE)],
      [NoFilters EXCEPT !.state = Some(<<>>), !.city = Some(<<"l">>)],
      [NoFilters EXCEPT !.state = Some(<<"c", "_">>)],
      [NoFilters EXCEPT !.city = Some(<<"l", "_">>)] }

\* Ids the service is called with: every id handed out so far and the next.
CallIds == 1..nextId

HasRow(tbl, id) == \E r \in tbl : r.id = id

NoCall == [op |-> "none"]

\* offset is the zone of the device that makes the call; the service never
\* reads it.
CallGetCheckpoints(f, now, offset, fault) ==
    /\ \E r \in getCheckpoints(f, now, table, fault) : resp' = r
    /\ req' = [op |-> "getCheckpoints", filters |-> f, now |-> now, tz |-> offset,
               fault |-> fault]
    /\ UNCHANGED <<table, nextId>>

CallGetCheckpointById(id, fault) ==
    /\ resp' = getCheckpointById(id, table, fault)
    /\ req' = [op |-> "getCheckpointById", id |-> id, fault |-> fault,
               existed |-> HasRow(table, id), changed |-> FALSE]
    /\ UNCHANGED <<table, nextId>>

CallCreateCheckpoint(data, fault) ==
    /\ nextId <= MaxId
    /\ resp' = createCheckpoint(data, nextId, fault)
    /\ table' = InsertTable(data, nextId, table, fault)
    /\ nextId' = IF fault = "none" THEN nextId + 1 ELSE nextId
    /\ req' = [op |-> "createCheckpoint", id |-> nextId, fault |-> fault,
               existed |-> FALSE, changed |-> table' # table]

CallUpdateCheckpoint(id, updates, fault) ==
    /\ resp' = updateCheckpoint(id, updates, table, fault)
    /\ table' = UpdateTable(id, updates, table, fault)
    /\ req' = [op |-> "updateCheckpoint", id |-> id, fault |-> fault,
               existed |-> HasRow(table, id), changed |-> table' # table]
    /\ UNCHANGED nextId

CallDeleteCheckpoint(id, fault) ==
    /\ resp' = deleteCheckpoint(id, table, fault)
    /\ table' = DeleteTable(id, table, fault)
    /\ req' = [op |-> "deleteCheckpoint", id |-> id, fault |-> fault,
               existed |-> HasRow(table, id), changed |-> table' # table]
    /\ UNCHANGED nextId

\* Instants the device clock is read at: early and late (UTC) on the sample day.
Instants == {Day0 * HoursPerDay + 2, Day0 * HoursPerDay + 20}

\* Device time zones: UTC-8, UTC, UTC+9.
Offsets == {-8, 0, 9}

\* No hook is in use while the service is called directly.
HooksIdle ==
    /\ hook = "none"
    /\ filters = NoFilters
    /\ useCheckpoints = [checkpoints |-> <<>>, count |-> 0, loading |-> FALSE, error |-> Null]
    /\ idProp = Null
    /\ useCheckpoint = [checkpoint |-> Null, loading |-> FALSE, error |-> Null]
    /\ autoFetch = FALSE
    /\ inflight = <<>>
    /\ last = [act |-> "none", issued |-> 0]

\* No date utility has been called.
UtilsIdle == util = [fn |-> "none"]

\* The client module loaded with both credentials set.
ClientCreated ==
    [status |-> "created", warned |-> FALSE, url |-> "https://project.supabase.co",
     key |-> "anon-key"]

\* The client is in place and no component is on screen.
CompsIdle ==
    /\ client = ClientCreated
    /\ checkpointList = [tab |-> "none"]
    /\ geo = [page |-> "none"]
    /\ webview = [page |-> "none"]

InitApi ==
    /\ table = {}
    /\ nextId = 1
    /\ req = NoCall
    /\ resp = NoCall
    /\ HooksIdle
    /\ UtilsIdle
    /\ CompsIdle

NextApi ==
    \/ \E f \in Filters, now \in Instants, offset \in Offsets, fault \in Faults : CallGetCheckpoints(f, now, offset, fault) /\ UNCHANGED <<hookVars, util, compVars>>
    \/ \E id \in CallIds, fault \in SingleFaults : CallGetCheckpointById(id, fault) /\ UNCHANGED <<hookVars, util, compVars>>
    \/ \E data \in CheckpointData, fault \in SingleFaults : CallCreateCheckpoint(data, fault) /\ UNCHANGED <<hookVars, util, compVars>>
    \/ \E id \in CallIds, u \in Updates, fault \in SingleFaults : CallUpdateCheckpoint(id, u, fault) /\ UNCHANGED <<hookVars, util, compVars>>
    \/ \E id \in CallIds, fault \in SingleFaults : CallDeleteCheckpoint(id, fault) /\ UNCHANGED <<hookVars, util, compVars>>

\* The query service called directly on the remote table.
SpecApi == InitApi /\ [][NextApi]_vars

----------------------------------------------------------------------------
(* useCheckpoints: hooks/use-checkpoints.ts *)

\* A dependency list that leaves out filters?.county.
DepsChangedNoCounty(old, new) ==
    \/ old.state # new.state
    \/ old.city # new.city
    \/ old.upcoming # new.upcoming

\* The effect's dependency list: filters?.state, .city, .county, .upcoming.
DepsChanged(old, new) ==
    \/ old.state # new.state
    \/ old.city # new.city
    \/ old.county # new.county
    \/ old.upcoming # new.upcoming

\* fetchCheckpoints up to its await.
\* A fetchCheckpoints that empties the list while it loads.
StartFetchCheckpointsClearsData(st) ==
    [st EXCEPT !.loading = TRUE, !.error = Null, !.checkpoints = <<>>, !.count = 0]

StartFetchCheckpoints(st) == [st EXCEPT !.loading = TRUE, !.error = Null]

\* An error branch that leaves count as it was.
FinishFetchCheckpointsKeepsCount(st, result) ==
    IF "error" \in DOMAIN result
    THEN [st EXCEPT !.error = Some(result.error), !.checkpoints = <<>>, !.loading = FALSE]
    ELSE [st EXCEPT !.checkpoints = result.checkpoints, !.count = result.count,
                    !.loading = FALSE]

\* An error branch that leaves the list as it was.
FinishFetchCheckpointsKeepsData(st, result) ==
    IF "error" \in DOMAIN result
    THEN [st EXCEPT !.error = Some(result.error), !.loading = FALSE]
    ELSE [st EXCEPT !.checkpoints = result.checkpoints, !.count = result.count,
                    !.loading = FALSE]

\* An error branch that returns before setLoading(false).
FinishFetchCheckpointsErrorReturns(st, result) ==
    IF "error" \in DOMAIN result
    THEN [st EXCEPT !.error = Some(result.error), !.checkpoints = <<>>, !.count = 0]
    ELSE [st EXCEPT !.checkpoints = result.checkpoints, !.count = result.count,
                    !.loading = FALSE]

\* fetchCheckpoints from its await on, with the envelope getCheckpoints gave.
FinishFetchCheckpoints(st, result) ==
    IF "error" \in DOMAIN result
    THEN [st EXCEPT !.error = Some(result.error), !.checkpoints = <<>>, !.count = 0,
                    !.loading = FALSE]
    ELSE [st EXCEPT !.checkpoints = result.checkpoints, !.count = result.count,
                    !.loading = FALSE]

\* The effect body: whether this run of the effect calls fetchCheckpoints.
EffectFetches(auto) == auto

\* The useState initial values.
InitialCheckpoints(auto) ==
    [checkpoints |-> <<>>, count |-> 0, loading |-> auto, error |-> Null]

\* One call of fetchCheckpoints, on hook state st, by the render whose filters
\* are f: the state is set and the query, built before the await, goes in
\* flight.
IssueCheckpoints(st, f, now) ==
    /\ Len(inflight) < MaxInFlight
    /\ useCheckpoints' = StartFetchCheckpoints(st)
    /\ inflight' = Append(inflight, [filters |-> f, query |-> BuildQuery(f, now)])

\* First render of a component that calls useCheckpoints(f, auto), and its
\* mount effect.
MountCheckpoints(f, auto, now) ==
    /\ hook = "none"
    /\ hook' = "useCheckpoints"
    /\ filters' = f
    /\ autoFetch' = auto
    /\ IF EffectFetches(auto)
       THEN IssueCheckpoints(InitialCheckpoints(auto), f, now)
       ELSE useCheckpoints' = InitialCheckpoints(auto) /\ UNCHANGED inflight
    /\ last' = [act |-> "mount", issued |-> Len(inflight') - Len(inflight), prev |-> f,
                hadError |-> FALSE]
    /\ UNCHANGED <<idProp, useCheckpoint>>

\* A render whose effect has no dependency list: it runs after every render.
RenderCheckpointsNoDeps(f, auto, now) ==
    /\ hook = "useCheckpoints"
    /\ filters' = f
    /\ autoFetch' = auto
    /\ IF EffectFetches(auto)
       THEN IssueCheckpoints(useCheckpoints, f, now)
       ELSE UNCHANGED <<useCheckpoints, inflight>>
    /\ last' = [act |-> "render", issued |-> Len(inflight') - Len(inflight),
                prev |-> filters, hadError |-> ~IsNull(useCheckpoints.error)]
    /\ UNCHANGED <<hook, idProp, useCheckpoint>>

\* A render whose effect, when it does not fetch, gives up on the fetch in
\* flight: it sets loading to false.
RenderCheckpointsGivesUp(f, auto, now) ==
    /\ hook = "useCheckpoints"
    /\ filters' = f
    /\ autoFetch' = auto
    /\ IF DepsChanged(filters, f) /\ EffectFetches(auto)
       THEN IssueCheckpoints(useCheckpoints, f, now)
       ELSE /\ useCheckpoints' = [useCheckpoints EXCEPT !.loading = FALSE]
            /\ UNCHANGED inflight
    /\ last' = [act |-> "render", issued |-> Len(inflight') - Len(inflight),
                prev |-> filters, hadError |-> ~IsNull(useCheckpoints.error)]
    /\ UNCHANGED <<hook, idProp, useCheckpoint>>

\* A later render with props (f, auto); the effect runs when a dependency
\* changed.
RenderCheckpoints(f, auto, now) ==
    /\ hook = "useCheckpoints"
    /\ filters' = f
    /\ autoFetch' = auto
    /\ IF DepsChanged(filters, f) /\ EffectFetches(auto)
       THEN IssueCheckpoints(useCheckpoints, f, now)
       ELSE UNCHANGED <<useCheckpoints, inflight>>
    /\ last' = [act |-> "render", issued |-> Len(inflight') - Len(inflight),
                prev |-> filters, hadError |-> ~IsNull(useCheckpoints.error)]
    /\ UNCHANGED <<hook, idProp, useCheckpoint>>

\* refetch() of the last render.
RefetchCheckpoints(now) ==
    /\ hook = "useCheckpoints"
    /\ IssueCheckpoints(useCheckpoints, filters, now)
    /\ last' = [act |-> "refetch", issued |-> Len(inflight') - Len(inflight),
                prev |-> filters, hadError |-> ~IsNull(useCheckpoints.error)]
    /\ UNCHANGED <<hook, filters, autoFetch, idProp, useCheckpoint>>

RemoveAt(s, i) == [j \in 1..(Len(s) - 1) |-> IF j < i THEN s[j] ELSE s[j + 1]]

\* The i-th fetch in flight resolves: the store answers its query and
\* fetchCheckpoints runs to its end.
ResolveCheckpoints(i, fault) ==
    /\ hook = "useCheckpoints"
    /\ i \in DOMAIN inflight
    /\ \E reply \in SelectReplies(inflight[i].query, table, fault) :
         LET result == GetCheckpointsResult(reply)
         IN  /\ useCheckpoints' = FinishFetchCheckpoints(useCheckpoints, result)
             /\ last' = [act |-> "resolve", issued |-> 0, result |-> result,
                         hadData |-> useCheckpoints.checkpoints # <<>>]
    /\ inflight' = RemoveAt(inflight, i)
    /\ UNCHANGED <<hook, filters, autoFetch, idProp, useCheckpoint>>

----------------------------------------------------------------------------
(* useCheckpoint: hooks/use-checkpoints.ts *)

\* !id: the id is null or 0.
Falsy(id) == IsNull(id) \/ Val(id) = 0

InitialCheckpoint(id, auto) ==
    [checkpoint |-> Null, loading |-> auto /\ ~IsNull(id), error |-> Null]

\* fetchCheckpoint when !id: the early return.
ClearCheckpoint(st) == [st EXCEPT !.checkpoint = Null, !.loading = FALSE]

\* fetchCheckpoint without its setError(null).
StartFetchCheckpointKeepError(st) == [st EXCEPT !.loading = TRUE]

\* fetchCheckpoint up to its await.
StartFetchCheckpoint(st) == [st EXCEPT !.loading = TRUE, !.error = Null]

\* fetchCheckpoint from its await on, with the envelope getCheckpointById gave.
FinishFetchCheckpoint(st, result) ==
    IF "error" \in DOMAIN result
    THEN [st EXCEPT !.error = Some(result.error), !.checkpoint = Null, !.loading = FALSE]
    ELSE [st EXCEPT !.checkpoint = Some(result.checkpoint), !.loading = FALSE]

\* The effect body: whether this run of the effect calls fetchCheckpoint.
EffectFetchesOne(id, auto) == auto /\ ~IsNull(id)

\* One call of fetchCheckpoint, on hook state st, by the render whose id is id.
CallFetchCheckpoint(st, id) ==
    IF Falsy(id)
    THEN useCheckpoint' = ClearCheckpoint(st) /\ UNCHANGED inflight
    ELSE /\ Len(inflight) < MaxInFlight
         /\ useCheckpoint' = StartFetchCheckpoint(st)
         /\ inflight' = Append(inflight, [id |-> Val(id)])

\* First render of a component that calls useCheckpoint(id, auto), and its
\* mount effect.
MountCheckpoint(id, auto) ==
    /\ hook = "none"
    /\ hook' = "useCheckpoint"
    /\ idProp' = id
    /\ autoFetch' = auto
    /\ IF EffectFetchesOne(id, auto)
       THEN CallFetchCheckpoint(InitialCheckpoint(id, auto), id)
       ELSE useCheckpoint' = InitialCheckpoint(id, auto) /\ UNCHANGED inflight
    /\ last' = [act |-> "mount", issued |-> Len(inflight') - Len(inflight), prevId |-> id,
                hadError |-> FALSE]
    /\ UNCHANGED <<filters, useCheckpoints>>

\* A later render with props (id, auto); the effect runs when id changed.
RenderCheckpoint(id, auto) ==
    /\ hook = "useCheckpoint"
    /\ idProp' = id
    /\ autoFetch' = auto
    /\ IF id # idProp /\ EffectFetchesOne(id, auto)
       THEN CallFetchCheckpoint(useCheckpoint, id)
       ELSE UNCHANGED <<useCheckpoint, inflight>>
    /\ last' = [act |-> "render", issued |-> Len(inflight') - Len(inflight),
                prevId |-> idProp, hadError |-> ~IsNull(useCheckpoint.error)]
    /\ UNCHANGED <<hook, filters, useCheckpoints>>

\* refetch() of the last render.
RefetchCheckpoint ==
    /\ hook = "useCheckpoint"
    /\ CallFetchCheckpoint(useCheckpoint, idProp)
    /\ last' = [act |-> "refetch", issued |-> Len(inflight') - Len(inflight),
                prevId |-> idProp, hadError |-> ~IsNull(useCheckpoint.error)]
    /\ UNCHANGED <<hook, filters, autoFetch, idProp, useCheckpoints>>

\* The i-th fetch in flight resolves: the store answers and fetchCheckpoint
\* runs to its end.
ResolveCheckpoint(i, fault) ==
    /\ hook = "useCheckpoint"
    /\ i \in DOMAIN inflight
    /\ LET result == getCheckpointById(inflight[i].id, table, fault)
       IN  /\ useCheckpoint' = FinishFetchCheckpoint(useCheckpoint, result)
           /\ last' = [act |-> "resolve", issued |-> 0, result |-> result,
                       hadData |-> ~IsNull(useCheckpoint.checkpoint)]
    /\ inflight' = RemoveAt(inflight, i)
    /\ UNCHANGED <<hook, filters, autoFetch, idProp, useCheckpoints>>

----------------------------------------------------------------------------
(* One hook instance over a table that does not change meanwhile *)

\* The rows the hooks read.
SeedTable ==
    { WithId([Date |-> CivilFromDays(Day0 - 1), State |-> CA, City |-> LA, County |-> LA], 1),
      WithId([Date |-> CivilFromDays(Day0), State |-> NV, City |-> <<"L", "V">>, County |-> CA], 2) }

\* The filters prop of a render.
HookFilters ==
    { NoFilters,
      [NoFilters EXCEPT !.upcoming = Some(TRUE)],
      [NoFilters EXCEPT !.state = Some(<<"c", "a">>), !.upcoming = Some(TRUE)],
      [NoFilters EXCEPT !.county = Some(<<"l">>)] }

\* The id prop of a render: null, 0, a row's id, an id no row has.
HookIds == {Null, Some(0), Some(1), Some(3)}

InitHooks ==
    /\ table = SeedTable
    /\ nextId = 3
    /\ req = NoCall
    /\ resp = NoCall
    /\ HooksIdle
    /\ UtilsIdle
    /\ CompsIdle

NextHooks ==
    \/ \E f \in HookFilters, auto \in BOOLEAN, now \in Instants : MountCheckpoints(f, auto, now) /\ UNCHANGED <<apiVars, util, compVars>>
    \/ \E f \in HookFilters, auto \in BOOLEAN, now \in Instants : RenderCheckpoints(f, auto, now) /\ UNCHANGED <<apiVars, util, compVars>>
    \/ \E now \in Instants : RefetchCheckpoints(now) /\ UNCHANGED <<apiVars, util, compVars>>
    \/ \E i \in 1..MaxInFlight, fault \in Faults : ResolveCheckpoints(i, fault) /\ UNCHANGED <<apiVars, util, compVars>>
    \/ \E id \in HookIds, auto \in BOOLEAN : MountCheckpoint(id, auto) /\ UNCHANGED <<apiVars, util, compVars>>
    \/ \E id \in HookIds, auto \in BOOLEAN : RenderCheckpoint(id, auto) /\ UNCHANGED <<apiVars, util, compVars>>
    \/ RefetchCheckpoint /\ UNCHANGED <<apiVars, util, compVars>>
    \/ \E i \in 1..MaxInFlight, fault \in SingleFaults : ResolveCheckpoint(i, fault) /\ UNCHANGED <<apiVars, util, compVars>>

\* A component using one of the two hooks: renders, refetches and resolutions
\* in any order.
SpecHooks == InitHooks /\ [][NextHooks]_vars

\* The i-th remote call in flight returns.
Returns(i) ==
    \/ \E fault \in Faults : ResolveCheckpoints(i, fault) /\ UNCHANGED <<apiVars, util, compVars>>
    \/ \E fault \in SingleFaults : ResolveCheckpoint(i, fault) /\ UNCHANGED <<apiVars, util, compVars>>

\* The same component, every remote call of which eventually returns.
SpecHooksLive == SpecHooks /\ \A i \in 1..MaxInFlight : WF_vars(Returns(i))

----------------------------------------------------------------------------
(* Start-up: lib/supabase/client.ts *)

\* Values of EXPO_PUBLIC_SUPABASE_URL (or extra.supabaseUrl); '' when unset.
SupabaseUrls == {"", "https://project.supabase.co"}

\* Values of EXPO_PUBLIC_SUPABASE_ANON_KEY (or extra.supabaseAnonKey).
SupabaseAnonKeys == {"", "anon-key"}

\* createClient of @supabase/supabase-js: its constructor throws when the URL
\* or the key is empty, and otherwise returns a client.
createClient(supabaseUrl, supabaseAnonKey) ==
    IF supabaseUrl = "" THEN [threw |-> "supabaseUrl is required."]
    ELSE IF supabaseAnonKey = "" THEN [threw |-> "supabaseKey is required."]
    ELSE [created |-> TRUE]

\* The module body: the warning, then export const supabase = createClient().
LoadClient(supabaseUrl, supabaseAnonKey) ==
    /\ client.status = "unloaded"
    /\ client' = [status |-> IF "threw" \in DOMAIN createClient(supabaseUrl, supabaseAnonKey)
                              THEN "threw" ELSE "created",
                  warned |-> (supabaseUrl = "" \/ supabaseAnonKey = ""),
                  url |-> supabaseUrl, key |-> supabaseAnonKey]
    /\ UNCHANGED <<apiVars, hookVars, util, checkpointList, geo, webview>>

\* A screen asks for the checkpoints after start-up. When the client module
\* threw while loading, so does every module that imports it: the caller gets
\* that exception and no envelope.
QueryAfterLoad(f, now, offset, fault) ==
    /\ client.status # "unloaded"
    /\ IF client.status = "created"
       THEN CallGetCheckpoints(f, now, offset, fault)
       ELSE /\ resp' = [uncaught |-> createClient(client.url, client.key).threw]
            /\ req' = [op |-> "getCheckpoints", filters |-> f, now |-> now, tz |-> offset,
                       fault |-> "none"]
            /\ UNCHANGED <<table, nextId>>
    /\ UNCHANGED <<hookVars, util, compVars>>

InitStartup ==
    /\ table = {}
    /\ nextId = 1
    /\ req = NoCall
    /\ resp = NoCall
    /\ HooksIdle
    /\ UtilsIdle
    /\ client = [status |-> "unloaded", warned |-> FALSE, url |-> "", key |-> ""]
    /\ checkpointList = [tab |-> "none"]
    /\ geo = [page |-> "none"]
    /\ webview = [page |-> "none"]

NextStartup ==
    \/ \E u \in SupabaseUrls, k \in SupabaseAnonKeys : LoadClient(u, k)
    \/ \E f \in Filters, now \in Instants, offset \in Offsets, fault \in Faults : QueryAfterLoad(f, now, offset, fault)

\* The application starting with any credentials, then querying.
SpecStartup == InitStartup /\ [][NextStartup]_vars

----------------------------------------------------------------------------
(* Date utilities: lib/utils/checkpoint-utils.ts *)

\* A JavaScript Date is Some(instant), or Null when it is an Invalid Date.

\* Days the date strings handed to the utilities lie from the sample day.
MaxDayShift == 2

\* new Date(dateString): a date-only string is read as midnight UTC.
parseUTCDate(dateString, offset) ==
    IF Len(dateString) < 3 THEN Null
    ELSE Some(DaysFromCivil(dateString[1], dateString[2], dateString[3]) * HoursPerDay)

\* dateString.split('-').map(Number), then new Date(year, month - 1, day):
\* midnight of that calendar date in the device's zone. A string with fewer
\* than three fields leaves day undefined, which makes an Invalid Date.
parseLocalDate(dateString, offset) ==
    IF Len(dateString) < 3 THEN Null
    ELSE Some(DaysFromCivil(dateString[1], dateString[2], dateString[3]) * HoursPerDay
              - offset)

\* A setHours that leaves the time of day as it is.
SetHoursKept(t, offset) == t

\* date.setHours(0, 0, 0, 0): midnight of the date's local day.
SetHoursZero(t, offset) == ((t + offset) \div HoursPerDay) * HoursPerDay - offset

\* date.toDateString(): the local calendar date; the text "Invalid Date",
\* here the date of no fields, for an Invalid Date.
ToDateString(date, offset) ==
    IF IsNull(date) THEN <<>> ELSE LocalDate(Val(date), offset)

isToday(dateString, now, offset) ==
    IF ~Truthy(dateString) THEN FALSE
    ELSE LET checkpointDate == parseLocalDate(Val(dateString), offset)
             today == Some(now)
         IN  ToDateString(checkpointDate, offset) = ToDateString(today, offset)

\* checkpointDate >= today is false when checkpointDate is an Invalid Date.
isUpcoming(dateString, now, offset) ==
    IF ~Truthy(dateString) THEN FALSE
    ELSE LET checkpointDate == parseLocalDate(Val(dateString), offset)
             today == SetHoursZero(now, offset)
         IN  /\ ~IsNull(checkpointDate)
             /\ SetHoursZero(Val(checkpointDate), offset) >= today

\* An isPast that compares on its own, against the untruncated clock.
isPastOwnComparison(dateString, now, offset) ==
    IF ~Truthy(dateString) THEN FALSE
    ELSE LET checkpointDate == parseLocalDate(Val(dateString), offset)
         IN  /\ ~IsNull(checkpointDate)
             /\ Val(checkpointDate) < now

isPast(dateString, now, offset) ==
    IF ~Truthy(dateString) THEN FALSE
    ELSE ~isUpcoming(dateString, now, offset)

\* Arguments of the utilities: null, the empty string, "2024-12", and the
\* dates around the sample day.
UtilDateStrings ==
    {Null, Some(<<>>), Some(<<2024, 12>>)}
        \cup {Some(CivilFromDays(Day0 + k)) : k \in (0 - MaxDayShift)..MaxDayShift}

\* Every hour of the sample day (UTC) the device clock is read at.
UtilInstants == {Day0 * HoursPerDay + h : h \in 0..(HoursPerDay - 1)}

CallIsToday(dateString, now, offset) ==
    util' = [fn |-> "isToday", dateString |-> dateString, now |-> now, tz |-> offset,
             result |-> isToday(dateString, now, offset)]

CallIsUpcoming(dateString, now, offset) ==
    util' = [fn |-> "isUpcoming", dateString |-> dateString, now |-> now, tz |-> offset,
             result |-> isUpcoming(dateString, now, offset)]

CallIsPast(dateString, now, offset) ==
    util' = [fn |-> "isPast", dateString |-> dateString, now |-> now, tz |-> offset,
             result |-> isPast(dateString, now, offset)]

InitUtils ==
    /\ table = {}
    /\ nextId = 1
    /\ req = NoCall
    /\ resp = NoCall
    /\ HooksIdle
    /\ UtilsIdle
    /\ CompsIdle

NextUtils ==
    \/ \E d \in UtilDateStrings, now \in UtilInstants, offset \in Offsets : CallIsToday(d, now, offset) /\ UNCHANGED <<apiVars, hookVars, compVars>>
    \/ \E d \in UtilDateStrings, now \in UtilInstants, offset \in Offsets : CallIsUpcoming(d, now, offset) /\ UNCHANGED <<apiVars, hookVars, compVars>>
    \/ \E d \in UtilDateStrings, now \in UtilInstants, offset \in Offsets : CallIsPast(d, now, offset) /\ UNCHANGED <<apiVars, hookVars, compVars>>

\* The date utilities called with any argument at any clock reading.
SpecUtils == InitUtils /\ [][NextUtils]_vars

----------------------------------------------------------------------------
(* CheckpointList: components/checkpoint-list.tsx *)

\* s.toLowerCase()
ToLowerCase(s) == [i \in DOMAIN s |-> Lower(s[i])]

\* s.includes(t)
Includes(s, t) == \E i \in 0..(Len(s) - Len(t)) : SubSeq(s, i + 1, i + Len(t)) = t

\* field?.toLowerCase().includes(query): undefined, which is falsy, when the
\* field is missing.
FieldIncludes(field, query) == ~IsNull(field) /\ Includes(ToLowerCase(Val(field)), query)

\* The search part of the filter callback.
SearchKeeps(cp, searchQuery) ==
    \/ searchQuery = <<>>
    \/ LET query == ToLowerCase(searchQuery)
       IN  \/ FieldIncludes(cp.City, query)
           \/ FieldIncludes(cp.County, query)
           \/ FieldIncludes(cp.Location, query)
           \/ FieldIncludes(cp.State, query)

\* A filter whose past tab is everything that is not upcoming.
filteredCheckpointsPastIsNotUpcoming(checkpoints, activeTab, searchQuery, now, offset) ==
    LET Keeps(cp) ==
            /\ ~(activeTab = "upcoming" /\ ~isUpcoming(cp.Date, now, offset))
            /\ ~(activeTab = "past" /\ isUpcoming(cp.Date, now, offset))
            /\ SearchKeeps(cp, searchQuery)
    IN  SelectSeq(checkpoints, Keeps)

\* checkpoints.filter(...): the entries the list shows.
filteredCheckpoints(checkpoints, activeTab, searchQuery, now, offset) ==
    LET Keeps(cp) ==
            /\ ~(activeTab = "upcoming" /\ ~isUpcoming(cp.Date, now, offset))
            /\ ~(activeTab = "past" /\ ~isPast(cp.Date, now, offset))
            /\ SearchKeeps(cp, searchQuery)
    IN  SelectSeq(checkpoints, Keeps)

\* The checkpoints prop: records dated the days around the sample day, one
\* without a date, one whose date is "2024-12", some without City or Location.
ListCheckpoints ==
    << [id |-> 1, Date |-> Some(CivilFromDays(Day0 - 1)), State |-> Some(CA),
        City |-> Some(LA), County |-> Some(LA), Location |-> Null],
       [id |-> 2, Date |-> Some(CivilFromDays(Day0)), State |-> Some(NV),
        City |-> Some(<<"L", "V">>), County |-> Some(CA), Location |-> Some(<<"A", "v">>)],
       [id |-> 3, Date |-> Null, State |-> Some(CA),
        City |-> Null, County |-> Some(LA), Location |-> Null],
       [id |-> 4, Date |-> Some(CivilFromDays(Day0 + 1)), State |-> Some(NV),
        City |-> Some(LA), County |-> Null, Location |-> Null],
       [id |-> 5, Date |-> Some(<<2024, 12>>), State |-> Some(CA),
        City |-> Some(LA), County |-> Some(LA), Location |-> Null] >>

Tabs == {"upcoming", "past"}

\* What the user has typed in the search field.
SearchQueries == {<<>>, <<"l">>, <<"A">>, <<"n", "v">>, <<"x">>}

\* One render of CheckpointList.
RenderList(activeTab, searchQuery, now, offset) ==
    /\ checkpointList' =
           [tab |-> activeTab, searchQuery |-> searchQuery, now |-> now, tz |-> offset,
            checkpoints |-> ListCheckpoints,
            filteredCheckpoints |->
                filteredCheckpoints(ListCheckpoints, activeTab, searchQuery, now, offset)]
    /\ UNCHANGED <<apiVars, hookVars, util, client, geo, webview>>

InitList ==
    /\ table = {}
    /\ nextId = 1
    /\ req = NoCall
    /\ resp = NoCall
    /\ HooksIdle
    /\ UtilsIdle
    /\ CompsIdle

NextList ==
    \E activeTab \in Tabs, q \in SearchQueries, now \in UtilInstants, offset \in Offsets : RenderList(activeTab, q, now, offset)

\* The list rendered with any tab and search text at any clock reading.
SpecList == InitList /\ [][NextList]_vars

----------------------------------------------------------------------------
(* The map page's markers: components/map-view.tsx, generateLeafletHTML *)

\* The checkpoints a page is generated with: lists in which a city and state
\* occur twice, a record has no City, a record has no State.
MapCheckpointLists ==
    { << [id |-> 1, City |-> Some(LA), State |-> Some(CA)],
         [id |-> 2, City |-> Some(<<"L", "V">>), State |-> Some(NV)],
         [id |-> 3, City |-> Some(LA), State |-> Some(CA)] >>,
      << [id |-> 1, City |-> Null, State |-> Some(CA)],
         [id |-> 2, City |-> Some(LA), State |-> Null],
         [id |-> 3, City |-> Some(<<"L", "V">>), State |-> Some(NV)] >> }

California == <<"C", "a", "l", "i", "f", "o", "r", "n", "i", "a">>

\* What one call of geocodeLocation comes to: coordinates; null for an empty
\* result, for a response that is not ok, and for a fetch that throws.
GeocodeOutcomes == {"coords", "empty", "notOk", "throws"}

geocodeLocation(outcome) == IF outcome = "coords" THEN Some("geocoded") ELSE Null

\* The page is generated and its script starts addMarkers().
GeneratePage(checkpoints) ==
    /\ geo.page = "none"
    /\ geo' = [page |-> "addMarkers", checkpoints |-> checkpoints, i |-> 1,
               awaiting |-> FALSE, requests |-> <<>>, markers |-> <<>>]
    /\ UNCHANGED <<apiVars, hookVars, util, client, checkpointList, webview>>

\* The loop body for the next checkpoint, up to its await: with a City the
\* geocoding request goes out; without one the marker goes to DEFAULT_CENTER.
AddMarkersStep ==
    /\ geo.page = "addMarkers"
    /\ ~geo.awaiting
    /\ geo.i <= Len(geo.checkpoints)
    /\ LET checkpoint == geo.checkpoints[geo.i]
       IN  IF Truthy(checkpoint.City)
           THEN LET state == IF Truthy(checkpoint.State) THEN Val(checkpoint.State)
                             ELSE California
                IN  geo' = [geo EXCEPT !.awaiting = TRUE,
                                       !.requests = Append(@, <<Val(checkpoint.City), state>>)]
           ELSE geo' = [geo EXCEPT !.markers = Append(@, [id |-> checkpoint.id,
                                                          coords |-> "DEFAULT_CENTER"]),
                                   !.i = @ + 1]
    /\ UNCHANGED <<apiVars, hookVars, util, client, checkpointList, webview>>

\* The geocoding request returns and the loop body runs to its end.
GeocodeReturns(outcome) ==
    /\ geo.page = "addMarkers"
    /\ geo.awaiting
    /\ LET checkpoint == geo.checkpoints[geo.i]
           geocoded == geocodeLocation(outcome)
           coords == IF ~IsNull(geocoded) THEN Val(geocoded) ELSE "DEFAULT_CENTER"
       IN  geo' = [geo EXCEPT !.awaiting = FALSE,
                              !.markers = Append(@, [id |-> checkpoint.id, coords |-> coords,
                                                     outcome |-> outcome]),
                              !.i = @ + 1]
    /\ UNCHANGED <<apiVars, hookVars, util, client, checkpointList, webview>>

InitMarkers ==
    /\ table = {}
    /\ nextId = 1
    /\ req = NoCall
    /\ resp = NoCall
    /\ HooksIdle
    /\ UtilsIdle
    /\ CompsIdle

NextMarkers ==
    \/ \E checkpoints \in MapCheckpointLists : GeneratePage(checkpoints)
    \/ AddMarkersStep
    \/ \E outcome \in GeocodeOutcomes : GeocodeReturns(outcome)

\* One map page adding its markers.
SpecMarkers == InitMarkers /\ [][NextMarkers]_vars

----------------------------------------------------------------------------
(* The WebView map: generateMapboxHTML and MapViewComponent *)

\* event.nativeEvent.data, by what JSON.parse makes of it: text that is not
\* JSON, the JSON text null, or an object with a type.
NotJson == [kind |-> "notJSON"]
JsonNull == [kind |-> "null"]
MapReady == [kind |-> "object", type |-> "mapReady"]
MapError == [kind |-> "object", type |-> "mapError"]
MapMove == [kind |-> "object", type |-> "mapMove"]
MarkerClick(id) == [kind |-> "object", type |-> "markerClick", checkpointId |-> id]

\* The ids of the checkpoints prop.
MapCheckpointIds == {1, 2}

\* Messages that reach onMessage besides mapReady and mapError: a marker
\* click on a checkpoint of the prop, one on an id the prop does not have, a
\* map move, and data that is not an object.
OtherMessages == {NotJson, JsonNull, MapMove, MarkerClick(1), MarkerClick(9)}

\* A handler that does nothing on mapError.
handleMessageIgnoresError(st, data) ==
    IF data.kind # "object" THEN st
    ELSE IF data.type = "mapReady" THEN [st EXCEPT !.isLoading = FALSE]
    ELSE IF data.type = "markerClick" /\ st.handler /\ data.checkpointId \in MapCheckpointIds
    THEN [st EXCEPT !.clicks = Append(@, data.checkpointId)]
    ELSE st

\* handleMessage: JSON.parse throws on text that is not JSON and data.type
\* throws on null, both caught; mapReady hides the overlay; mapError starts
\* the one-second timer that hides it; markerClick calls onMarkerClick when
\* it is given and the prop has the checkpoint.
handleMessage(st, data) ==
    IF data.kind # "object" THEN st
    ELSE IF data.type = "mapReady" THEN [st EXCEPT !.isLoading = FALSE]
    ELSE IF data.type = "mapError" THEN [st EXCEPT !.hideTimers = @ + 1]
    ELSE IF data.type = "markerClick" /\ st.handler /\ data.checkpointId \in MapCheckpointIds
    THEN [st EXCEPT !.clicks = Append(@, data.checkpointId)]
    ELSE st

\* window.ReactNativeWebView.postMessage(JSON.stringify(message))
PostMessage(st, message) == [st EXCEPT !.messages = Append(@, message)]

\* The component mounts (isLoading = true) and the page's script runs. The
\* Mapbox script is a blocking script of the head: window.mapboxgl is there
\* when the page script runs or it never will be. With it initMap runs at
\* once, and creates the map and the 5-second timer or throws and posts
\* mapError; without it the 100 ms interval and the 10-second timer start.
RunScript(platform, handler, present, outcome) ==
    /\ webview.page = "none"
    /\ webview' =
           [page |-> "running", platform |-> platform, handler |-> handler,
            mapboxgl |-> present,
            map |-> IF present THEN outcome ELSE "none",
            fallback |-> present /\ outcome = "created",
            checkInterval |-> ~present,
            timeout |-> ~present,
            loaded |-> FALSE, errors |-> 0, injected |-> 0, loadEnd |-> FALSE,
            messages |-> IF present /\ outcome = "threw" THEN <<MapError>> ELSE <<>>,
            isLoading |-> TRUE, hideTimers |-> 0, clicks |-> <<>>]
    /\ UNCHANGED <<apiVars, hookVars, util, client, checkpointList, geo>>

\* map.on('load'): mapReady is posted.
MapLoads ==
    /\ webview.page = "running"
    /\ webview.map = "created"
    /\ ~webview.loaded
    /\ webview' = PostMessage([webview EXCEPT !.loaded = TRUE], MapReady)
    /\ UNCHANGED <<apiVars, hookVars, util, client, checkpointList, geo>>

\* map.on('error'): mapError is posted.
MapErrors ==
    /\ webview.page = "running"
    /\ webview.map = "created"
    /\ webview.errors < MaxMapErrors
    /\ webview' = PostMessage([webview EXCEPT !.errors = @ + 1], MapError)
    /\ UNCHANGED <<apiVars, hookVars, util, client, checkpointList, geo>>

\* The 5-second fallback timer of initMap fires: mapReady is posted.
FallbackFires ==
    /\ webview.page = "running"
    /\ webview.fallback
    /\ webview' = PostMessage([webview EXCEPT !.fallback = FALSE], MapReady)
    /\ UNCHANGED <<apiVars, hookVars, util, client, checkpointList, geo>>

\* The 10-second timer of the script wait fires: the interval is cleared
\* and, the script still missing, mapError is posted.
TimeoutFires ==
    /\ webview.page = "running"
    /\ webview.timeout
    /\ LET st == [webview EXCEPT !.timeout = FALSE, !.checkInterval = FALSE]
       IN  webview' = IF ~webview.mapboxgl THEN PostMessage(st, MapError) ELSE st
    /\ UNCHANGED <<apiVars, hookVars, util, client, checkpointList, geo>>

\* Something else is posted to the component.
PostOther(message) ==
    /\ webview.page = "running"
    /\ webview.injected < MaxInjected
    /\ webview' = PostMessage([webview EXCEPT !.injected = @ + 1], message)
    /\ UNCHANGED <<apiVars, hookVars, util, client, checkpointList, geo>>

\* onMessage: the oldest posted message is handled.
HandleMessage ==
    /\ webview.page = "running"
    /\ webview.messages # <<>>
    /\ webview' = handleMessage([webview EXCEPT !.messages = Tail(@)], Head(webview.messages))
    /\ UNCHANGED <<apiVars, hookVars, util, client, checkpointList, geo>>

\* A setTimeout(() => setIsLoading(false), ...) of the component fires.
HideTimerFires ==
    /\ webview.page = "running"
    /\ webview.hideTimers > 0
    /\ webview' = [webview EXCEPT !.hideTimers = @ - 1, !.isLoading = FALSE]
    /\ UNCHANGED <<apiVars, hookVars, util, client, checkpointList, geo>>

\* onLoadEnd: on Android the 500 ms timer that hides the overlay starts.
OnLoadEnd ==
    /\ webview.page = "running"
    /\ ~webview.loadEnd
    /\ webview' = [webview EXCEPT !.loadEnd = TRUE,
                                   !.hideTimers = IF webview.platform = "android"
                                                  THEN @ + 1 ELSE @]
    /\ UNCHANGED <<apiVars, hookVars, util, client, checkpointList, geo>>

InitWebView ==
    /\ table = {}
    /\ nextId = 1
    /\ req = NoCall
    /\ resp = NoCall
    /\ HooksIdle
    /\ UtilsIdle
    /\ CompsIdle

NextWebView ==
    \/ \E platform \in {"ios", "android"}, handler \in BOOLEAN, present \in BOOLEAN, outcome \in {"created", "threw"} : RunScript(platform, handler, present, outcome)
    \/ MapLoads
    \/ MapErrors
    \/ FallbackFires
    \/ TimeoutFires
    \/ \E message \in OtherMessages : PostOther(message)
    \/ HandleMessage
    \/ HideTimerFires
    \/ OnLoadEnd

\* One WebView map from mount on.
SpecWebView == InitWebView /\ [][NextWebView]_vars

\* The same, where timers that were started fire and posted messages are
\* delivered.
SpecWebViewLive ==
    /\ SpecWebView
    /\ WF_vars(FallbackFires)
    /\ WF_vars(TimeoutFires)
    /\ WF_vars(HandleMessage)
    /\ WF_vars(HideTimerFires)

----------------------------------------------------------------------------
(* Properties of the hooks under overlapping fetches *)

Resolved == last.act = "resolve"

ResultFailed == "error" \in DOMAIN last.result

\* C1: after any fetch of useCheckpoints completes, the hook does not hold
\* both an error and a non-empty list: a successful fetch leaves error =
\* null, a failed one leaves checkpoints empty.
C1_ErrorXorData ==
    (hook = "useCheckpoints" /\ Resolved) =>
        /\ ~ResultFailed => IsNull(useCheckpoints.error)
        /\ ResultFailed => useCheckpoints.checkpoints = <<>>
        /\ ~(~IsNull(useCheckpoints.error) /\ useCheckpoints.checkpoints # <<>>)

\* C2: while at least one fetch of the hook has not resolved, loading = true.
C2_LoadingWhileInFlight ==
    /\ (hook = "useCheckpoints" /\ inflight # <<>>) => useCheckpoints.loading
    /\ (hook = "useCheckpoint" /\ inflight # <<>>) => useCheckpoint.loading

\* The state a fetch that got this envelope produces on its own.
Alone(result) ==
    IF "error" \in DOMAIN result
    THEN [checkpoints |-> <<>>, count |-> 0, error |-> Some(result.error)]
    ELSE [checkpoints |-> result.checkpoints, count |-> result.count, error |-> Null]

\* C3: once every fetch of useCheckpoints has resolved, checkpoints, count
\* and error are those the fetch that resolved last produces on its own.
C3_LastResolvedWins ==
    (hook = "useCheckpoints" /\ Resolved /\ inflight = <<>>) =>
        [checkpoints |-> useCheckpoints.checkpoints, count |-> useCheckpoints.count,
         error |-> useCheckpoints.error] = Alone(last.result)

\* C8: in useCheckpoint, while id is null the state is cleared (checkpoint =
\* null, error = null, loading = false) and the step that made or found it
\* null issued no remote call.
C8_NullIdClears ==
    (hook = "useCheckpoint" /\ IsNull(idProp)) =>
        /\ useCheckpoint = [checkpoint |-> Null, loading |-> FALSE, error |-> Null]
        /\ last.issued = 0

\* C9: useCheckpoints issues one getCheckpoints call on mount when autoFetch
\* is true, one on each render where state, city, county or upcoming changed
\* value when autoFetch is true, none on any other render, and one on each
\* refetch() whatever autoFetch is.
C9_CallsIssued ==
    hook = "useCheckpoints" =>
        /\ last.act = "mount" => last.issued = (IF autoFetch THEN 1 ELSE 0)
        /\ last.act = "render" =>
               last.issued = (IF autoFetch /\ last.prev # filters THEN 1 ELSE 0)
        /\ last.act = "refetch" => last.issued = 1

\* A render that changed only county issued a call while an earlier fetch was
\* still in flight.
C9_Witness ==
    /\ hook = "useCheckpoints"
    /\ last.act = "render"
    /\ last.issued = 1
    /\ last.prev.county # filters.county
    /\ last.prev.state = filters.state
    /\ last.prev.upcoming = filters.upcoming
    /\ Len(inflight) = 2

\* C10: in the state right after a hook issued a fetch, its error is null,
\* whatever error the previous attempt left.
C10_ErrorClearedOnIssue ==
    last.issued > 0 =>
        /\ hook = "useCheckpoints" => IsNull(useCheckpoints.error)
        /\ hook = "useCheckpoint" => IsNull(useCheckpoint.error)

\* useCheckpoint held an error and refetch() issued a new fetch.
C10_Witness ==
    /\ hook = "useCheckpoint"
    /\ last.act = "refetch"
    /\ last.issued = 1
    /\ last.hadError
    /\ IsNull(useCheckpoint.error)

Issued == last.issued > 0

\* The render changed a watched input of the hook.
WatchedChanged ==
    \/ hook = "useCheckpoints" /\ DepsChanged(last.prev, filters)
    \/ hook = "useCheckpoint" /\ last.prevId # idProp

\* The error the hook in use holds.
HookError == IF hook = "useCheckpoints" THEN useCheckpoints.error ELSE useCheckpoint.error

\* C21: the hooks never retry on their own: a remote call is issued only by
\* the mount, by refetch(), or by a render that changed a watched input
\* (state, city, county, upcoming; id), also after a fetch resolved with
\* an error.
C21_NoAutomaticRetry ==
    (hook # "none" /\ Issued) =>
        \/ last.act = "mount"
        \/ last.act = "refetch"
        \/ last.act = "render" /\ WatchedChanged

\* A fetch failed, nothing is in flight, and a render with autoFetch true and
\* the same watched inputs issued no call: the error is still shown.
C21_Witness ==
    /\ hook = "useCheckpoints"
    /\ last.act = "render"
    /\ last.hadError
    /\ autoFetch
    /\ ~WatchedChanged
    /\ ~Issued
    /\ inflight = <<>>
    /\ ~IsNull(HookError)

\* C24: in every state of useCheckpoints, under every interleaving of
\* fetches, count is the length of checkpoints.
C24_CountIsLengthInHook ==
    hook = "useCheckpoints" => useCheckpoints.count = Len(useCheckpoints.checkpoints)

\* A fetch delivered two records while another fetch was in flight.
C24_Witness ==
    /\ hook = "useCheckpoints"
    /\ Resolved
    /\ inflight # <<>>
    /\ useCheckpoints.count = 2
    /\ Len(useCheckpoints.checkpoints) = 2

\* The hook in use shows its spinner.
Loading == IF hook = "useCheckpoints" THEN useCheckpoints.loading ELSE useCheckpoint.loading

\* C25: if every remote call returns, a hook that is loading stops loading;
\* and once mounted, a hook with no fetch in flight is not loading.
C25_LoadingEnds ==
    /\ [](( hook # "none" /\ inflight = <<>>) => ~Loading)
    /\ (hook # "none" /\ Loading) ~> (hook # "none" /\ ~Loading)

\* The last of two overlapping fetches failed and the spinner went off.
C25_Witness ==
    /\ hook = "useCheckpoints"
    /\ Resolved
    /\ ResultFailed
    /\ inflight = <<>>
    /\ ~Loading

\* C28: when a fetch of useCheckpoints resolves with an error envelope the
\* hook holds no data: checkpoints is empty, count is 0 and error is the
\* envelope's error text; useCheckpoint holds checkpoint = null and the
\* error text. The details field is nowhere in the hook's state.
C28_ErrorDiscardsData ==
    (Resolved /\ ResultFailed) =>
        /\ hook = "useCheckpoints" =>
               /\ useCheckpoints.checkpoints = <<>>
               /\ useCheckpoints.count = 0
               /\ useCheckpoints.error = Some(last.result.error)
               /\ DOMAIN useCheckpoints = {"checkpoints", "count", "loading", "error"}
        /\ hook = "useCheckpoint" =>
               /\ useCheckpoint.checkpoint = Null
               /\ useCheckpoint.error = Some(last.result.error)
               /\ DOMAIN useCheckpoint = {"checkpoint", "loading", "error"}

\* useCheckpoints held records when a fetch brought an error with details.
C28_Witness ==
    /\ hook = "useCheckpoints"
    /\ Resolved
    /\ ResultFailed
    /\ last.hadData
    /\ "details" \in DOMAIN last.result
    /\ useCheckpoints.checkpoints = <<>>

\* C29: in useCheckpoints a step that issues a fetch leaves checkpoints and
\* count as they were; they change only in a step where a fetch resolves.
C29_IssueKeepsData ==
    [][hook = "useCheckpoints" =>
          /\ Len(inflight') > Len(inflight) =>
                 /\ useCheckpoints'.checkpoints = useCheckpoints.checkpoints
                 /\ useCheckpoints'.count = useCheckpoints.count
          /\ (useCheckpoints'.checkpoints # useCheckpoints.checkpoints
                 \/ useCheckpoints'.count # useCheckpoints.count) =>
                 Len(inflight') < Len(inflight)]_vars

\* refetch() was called while records were shown: they stay while loading.
C29_Witness ==
    /\ hook = "useCheckpoints"
    /\ last.act = "refetch"
    /\ Issued
    /\ useCheckpoints.loading
    /\ useCheckpoints.checkpoints # <<>>

----------------------------------------------------------------------------
(* Properties of the query service *)

Called(op) == req.op = op

InList(row, list) == \E i \in DOMAIN list : list[i] = row

\* C4: getCheckpoints({upcoming: true}) includes every record dated the
\* device's local calendar day and excludes every record dated before it,
\* for every time-zone offset and time of day.
C4_UpcomingIsLocalToday ==
    (Called("getCheckpoints") /\ req.filters = [NoFilters EXCEPT !.upcoming = Some(TRUE)]
        /\ req.fault = "none") =>
        \A row \in table :
            /\ row.Date = LocalDate(req.now, req.tz) => InList(row, resp.checkpoints)
            /\ DateLt(row.Date, LocalDate(req.now, req.tz)) => ~InList(row, resp.checkpoints)

\* The remote call gave data and reported no error: .single() reports
\* PGRST116 when no row has the id.
Succeeded ==
    /\ req.fault \in {"none", "nodata"}
    /\ req.op \in {"getCheckpointById", "updateCheckpoint"} => req.existed

EnvelopeFields == {"success", "count", "checkpoints", "checkpoint", "error", "details"}

\* C5: every operation returns an envelope for every outcome of the remote
\* call; the envelope has an error field exactly when the operation did not
\* succeed, and never both error and success.
C5_AlwaysAnEnvelope ==
    ~Called("none") =>
        /\ DOMAIN resp \subseteq EnvelopeFields
        /\ "error" \in DOMAIN resp <=> ~Succeeded
        /\ "error" \in DOMAIN resp => "success" \notin DOMAIN resp
        /\ "error" \notin DOMAIN resp => "success" \in DOMAIN resp /\ resp.success

\* An exception thrown in createCheckpoint came back as an error envelope.
C5_Witness ==
    /\ Called("createCheckpoint")
    /\ req.fault = "throwError"
    /\ resp = [error |-> "Internal server error", details |-> "Network request failed"]

\* C6: getCheckpointById answers "Checkpoint not found" when no row has the
\* id, "Failed to fetch checkpoint" with details for any other error the
\* store reports, and a success envelope with the row exactly when a row has
\* the id and the store reports no error.
C6_NotFoundIsDistinct ==
    Called("getCheckpointById") =>
        /\ (req.fault = "none" /\ ~req.existed) => resp = [error |-> "Checkpoint not found"]
        /\ req.fault = "store" =>
               /\ "error" \in DOMAIN resp /\ resp.error = "Failed to fetch checkpoint"
               /\ "details" \in DOMAIN resp
        /\ (req.fault = "none" /\ req.existed) =>
               /\ "success" \in DOMAIN resp /\ resp.success
               /\ resp.checkpoint \in table /\ resp.checkpoint.id = req.id
        /\ "success" \in DOMAIN resp => req.existed

\* A lookup of an id no row has, on a table that has rows.
C6_Witness ==
    /\ Called("getCheckpointById")
    /\ req.fault = "none"
    /\ ~req.existed
    /\ table # {}
    /\ resp = [error |-> "Checkpoint not found"]

\* C7: updateCheckpoint and deleteCheckpoint with an id no row has return
\* "Checkpoint not found" and leave the table as it was.
C7_MutationNotFound ==
    ((Called("updateCheckpoint") \/ Called("deleteCheckpoint"))
        /\ req.fault = "none" /\ ~req.existed) =>
        /\ resp = [error |-> "Checkpoint not found"]
        /\ ~req.changed

\* The records of a returned list.
Rows(list) == {list[i] : i \in DOMAIN list}

\* getCheckpoints was called and the store answered from its data.
Listed == Called("getCheckpoints") /\ req.fault = "none"

EqualsIgnoreCase(a, b) ==
    /\ Len(a) = Len(b)
    /\ \A i \in DOMAIN a : Lower(a[i]) = Lower(b[i])

\* t occurs in s as a run of consecutive characters, case ignored.
ContainsIgnoreCase(s, t) ==
    \E i \in 0..(Len(s) - Len(t)) : EqualsIgnoreCase(SubSeq(s, i + 1, i + Len(t)), t)

\* The record passes every filter that is set, today being the given date.
Satisfies(row, f, today) ==
    /\ Truthy(f.state) => EqualsIgnoreCase(row.State, Val(f.state))
    /\ Truthy(f.city) => ContainsIgnoreCase(row.City, Val(f.city))
    /\ Truthy(f.county) => ContainsIgnoreCase(row.County, Val(f.county))
    /\ f.upcoming = Some(TRUE) => DateGte(row.Date, today)

\* C14: getCheckpoints returns exactly the records that satisfy every filter
\* that is set (state and city and county and upcoming); an omitted filter,
\* an empty string and upcoming = false remove no record; with state and
\* upcoming set a record in the state is returned only if it is not past.
C14_FiltersAreConjunctive ==
    Listed =>
        Rows(resp.checkpoints) =
            {row \in table : Satisfies(row, req.filters, LocalDate(req.now, req.tz))}

\* Only the state filter is set.
OnlyState(f) == Truthy(f.state) /\ f = [NoFilters EXCEPT !.state = f.state]

\* C15: with filters.state = s the records returned are those whose State
\* equals s, case ignored: the whole value, not a part of it and not as a
\* pattern.
C15_StateIsExactMatch ==
    (Listed /\ Truthy(req.filters.state)) =>
        /\ \A row \in Rows(resp.checkpoints) :
               EqualsIgnoreCase(row.State, Val(req.filters.state))
        /\ OnlyState(req.filters) =>
               \A row \in table :
                   EqualsIgnoreCase(row.State, Val(req.filters.state))
                       => InList(row, resp.checkpoints)

\* Only the city filter is set.
OnlyCity(f) == Truthy(f.city) /\ f = [NoFilters EXCEPT !.city = f.city]

\* Only the county filter is set.
OnlyCounty(f) == Truthy(f.county) /\ f = [NoFilters EXCEPT !.county = f.county]

\* C16: with filters.city = t (filters.county = t) the records returned are
\* those whose City (County) contains t as a substring, case ignored.
C16_CityIsSubstringMatch ==
    Listed =>
        /\ Truthy(req.filters.city) =>
               \A row \in Rows(resp.checkpoints) :
                   ContainsIgnoreCase(row.City, Val(req.filters.city))
        /\ Truthy(req.filters.county) =>
               \A row \in Rows(resp.checkpoints) :
                   ContainsIgnoreCase(row.County, Val(req.filters.county))
        /\ OnlyCity(req.filters) =>
               \A row \in table :
                   ContainsIgnoreCase(row.City, Val(req.filters.city))
                       => InList(row, resp.checkpoints)
        /\ OnlyCounty(req.filters) =>
               \A row \in table :
                   ContainsIgnoreCase(row.County, Val(req.filters.county))
                       => InList(row, resp.checkpoints)

\* No filter is set: each is omitted, an empty string, or upcoming = false.
Unfiltered(f) ==
    /\ ~Truthy(f.state)
    /\ ~Truthy(f.city)
    /\ ~Truthy(f.county)
    /\ f.upcoming # Some(TRUE)

\* C17: in every success envelope of getCheckpoints count is the length of
\* checkpoints; when the store answers without error the envelope is a
\* success, with count 0 and the empty list when nothing matches or the
\* store gives no data; with no filter set count is the size of the table.
C17_CountIsLength ==
    Called("getCheckpoints") =>
        /\ "success" \in DOMAIN resp => resp.count = Len(resp.checkpoints)
        /\ req.fault \in {"none", "nodata"} =>
               /\ "success" \in DOMAIN resp /\ resp.success
               /\ "error" \notin DOMAIN resp
        /\ (req.fault = "nodata" \/ (req.fault = "none" /\ table = {})) =>
               resp = [success |-> TRUE, count |-> 0, checkpoints |-> <<>>]
        /\ (req.fault = "none" /\ Unfiltered(req.filters)) =>
               /\ resp.count = Cardinality(table)
               /\ Rows(resp.checkpoints) = table

\* The table has rows, the filters match none of them, and the answer is a
\* success with count 0 and the empty list.
C17_Witness ==
    /\ Listed
    /\ table # {}
    /\ ~Unfiltered(req.filters)
    /\ resp = [success |-> TRUE, count |-> 0, checkpoints |-> <<>>]

\* C18: whatever the filters, the list getCheckpoints returns is in ascending
\* order of Date.
C18_OrderedByDate ==
    (Called("getCheckpoints") /\ "success" \in DOMAIN resp) =>
        \A i, j \in DOMAIN resp.checkpoints :
            i < j => DateGte(resp.checkpoints[j].Date, resp.checkpoints[i].Date)

\* A filtered list of two records where the earlier date belongs to the row
\* created later.
C18_Witness ==
    /\ Listed
    /\ ~Unfiltered(req.filters)
    /\ Len(resp.checkpoints) = 2
    /\ resp.checkpoints[1].Date # resp.checkpoints[2].Date
    /\ resp.checkpoints[1].id > resp.checkpoints[2].id

\* The error texts of getCheckpoints.
GetCheckpointsErrors == {"Failed to fetch checkpoints", "Internal server error"}

\* getCheckpoints never reports a failure as a success, and reports it with
\* one of its two error texts.
FailuresAreErrors ==
    /\ req.fault \in {"store", "throwError", "throwOther"} =>
           "error" \in DOMAIN resp /\ "success" \notin DOMAIN resp
    /\ "error" \in DOMAIN resp => resp.error \in GetCheckpointsErrors
    /\ req.fault = "store" =>
           resp = [error |-> "Failed to fetch checkpoints", details |-> StoreError.message]

\* C19 as stated: a store error gives {error: "Failed to fetch checkpoints",
\* details: the store's message}, a thrown exception gives {error: "Internal
\* server error", details: the exception's message}; there is no other error
\* text and no failure is reported as a success.
C19_TwoErrorEnvelopes ==
    Called("getCheckpoints") =>
        /\ FailuresAreErrors
        /\ req.fault \in {"throwError", "throwOther"} =>
               resp = [error |-> "Internal server error",
                       details |-> Thrown(req.fault).message]

\* C19 amended: as stated, except that details is the exception's message
\* only when the thrown value is an Error, and "Unknown error" when it is not.
C19_DetailsOfThrownValue ==
    Called("getCheckpoints") =>
        /\ FailuresAreErrors
        /\ req.fault = "throwError" =>
               resp = [error |-> "Internal server error",
                       details |-> Thrown(req.fault).message]
        /\ req.fault = "throwOther" =>
               resp = [error |-> "Internal server error", details |-> "Unknown error"]

\* The client threw a value that is not an Error while the table had rows.
C19_Witness ==
    /\ Called("getCheckpoints")
    /\ req.fault = "throwOther"
    /\ table # {}
    /\ resp.details = "Unknown error"

\* C26: the service's upcoming filter and the client's classifier agree: a
\* record is returned by getCheckpoints({upcoming: true}) exactly when
\* isUpcoming(record.Date) is true on the same device at the same instant.
C26_ServerAgreesWithClient ==
    (Listed /\ req.filters = [NoFilters EXCEPT !.upcoming = Some(TRUE)]) =>
        \A row \in table :
            InList(row, resp.checkpoints) <=> isUpcoming(Some(row.Date), req.now, req.tz)

\* C23: when the store URL or the API key is empty, start-up only warns and
\* still produces a client, and every getCheckpoints afterwards returns the
\* error envelope "Failed to fetch checkpoints" instead of throwing.
C23_MissingCredentialsOnlyWarn ==
    (client.status # "unloaded" /\ (client.url = "" \/ client.key = "")) =>
        /\ client.warned
        /\ client.status = "created"
        /\ Called("getCheckpoints") =>
               /\ "error" \in DOMAIN resp
               /\ resp.error = "Failed to fetch checkpoints"

----------------------------------------------------------------------------
(* Properties of the date utilities *)

UtilCalled(fn) == util.fn = fn

\* The argument is a string with the three fields of a date.
WellFormed(dateString) == Truthy(dateString) /\ Len(Val(dateString)) = 3

\* The device's local calendar day when the utility ran.
UtilToday == LocalDate(util.now, util.tz)

\* C11: for every non-empty date string and every clock reading exactly one
\* of isUpcoming and isPast is true; for null, undefined and the empty string
\* both are false.
C11_UpcomingXorPast ==
    UtilCalled("isPast") =>
        /\ Truthy(util.dateString) =>
               util.result # isUpcoming(util.dateString, util.now, util.tz)
        /\ ~Truthy(util.dateString) =>
               /\ ~util.result
               /\ ~isUpcoming(util.dateString, util.now, util.tz)

\* isPast answered true for yesterday's date late in the local day.
C11_Witness ==
    /\ UtilCalled("isPast")
    /\ WellFormed(util.dateString)
    /\ DateLt(Val(util.dateString), UtilToday)
    /\ (util.now + util.tz) % HoursPerDay = 23
    /\ util.result

\* C12: a date equal to the device's local day is upcoming and not past at
\* every time of that day; every later day is upcoming; every earlier day is
\* past.
C12_TodayIsUpcoming ==
    /\ (UtilCalled("isUpcoming") /\ WellFormed(util.dateString)) =>
           util.result = DateGte(Val(util.dateString), UtilToday)
    /\ (UtilCalled("isPast") /\ WellFormed(util.dateString)) =>
           util.result = DateLt(Val(util.dateString), UtilToday)

\* isUpcoming answered true for today's date in the last hour of the local
\* day, west of UTC, where the UTC day is already tomorrow.
C12_Witness ==
    /\ UtilCalled("isUpcoming")
    /\ WellFormed(util.dateString)
    /\ Val(util.dateString) = UtilToday
    /\ (util.now + util.tz) % HoursPerDay = 23
    /\ util.tz < 0
    /\ ToISODate(util.now) # UtilToday
    /\ util.result

\* C13: isToday is true exactly when the string names the device's local
\* calendar day, whatever the UTC calendar day is; null, undefined and the
\* empty string give false.
C13_IsTodayIsLocal ==
    UtilCalled("isToday") =>
        util.result = (WellFormed(util.dateString) /\ Val(util.dateString) = UtilToday)

\* isToday answered true for the local day while the UTC day was another.
C13_Witness ==
    /\ UtilCalled("isToday")
    /\ WellFormed(util.dateString)
    /\ Val(util.dateString) = UtilToday
    /\ ToISODate(util.now) # UtilToday
    /\ util.result

----------------------------------------------------------------------------
(* Properties of CheckpointList *)

ListRendered == checkpointList.tab # "none"

\* The entries the other tab shows for the same props at the same instant.
OtherTab ==
    filteredCheckpoints(checkpointList.checkpoints,
                        IF checkpointList.tab = "upcoming" THEN "past" ELSE "upcoming",
                        checkpointList.searchQuery, checkpointList.now, checkpointList.tz)

\* The entries this tab shows when nothing is typed.
Unsearched ==
    filteredCheckpoints(checkpointList.checkpoints, checkpointList.tab, <<>>,
                        checkpointList.now, checkpointList.tz)

\* City, County, Location or State of the entry contains the text.
AnyFieldContains(cp, t) ==
    \/ ~IsNull(cp.City) /\ ContainsIgnoreCase(Val(cp.City), t)
    \/ ~IsNull(cp.County) /\ ContainsIgnoreCase(Val(cp.County), t)
    \/ ~IsNull(cp.Location) /\ ContainsIgnoreCase(Val(cp.Location), t)
    \/ ~IsNull(cp.State) /\ ContainsIgnoreCase(Val(cp.State), t)

\* C27: with an empty search query every checkpoint that has a date is under
\* exactly one tab (upcoming when isUpcoming, past otherwise) and one without
\* a date is under neither; a search query only removes entries from a tab,
\* keeping those whose City, County, Location or State contains it, case
\* ignored.
C27_TabsPartitionDated ==
    ListRendered =>
        /\ checkpointList.searchQuery = <<>> =>
               \A cp \in Rows(checkpointList.checkpoints) :
                   LET here  == InList(cp, checkpointList.filteredCheckpoints)
                       there == InList(cp, OtherTab)
                       up    == isUpcoming(cp.Date, checkpointList.now, checkpointList.tz)
                   IN  /\ Truthy(cp.Date) => here # there
                       /\ Truthy(cp.Date) => (here <=> (up <=> checkpointList.tab = "upcoming"))
                       /\ ~Truthy(cp.Date) => ~here /\ ~there
        /\ Rows(checkpointList.filteredCheckpoints) =
               {cp \in Rows(Unsearched) :
                   checkpointList.searchQuery = <<>>
                       \/ AnyFieldContains(cp, checkpointList.searchQuery)}

\* The past tab, nothing typed: it shows entries, among them the one whose
\* date is malformed, and not the one without a date.
C27_Witness ==
    /\ ListRendered
    /\ checkpointList.tab = "past"
    /\ checkpointList.searchQuery = <<>>
    /\ \E cp \in Rows(checkpointList.checkpoints) :
           IsNull(cp.Date) /\ ~InList(cp, checkpointList.filteredCheckpoints)
    /\ \E cp \in Rows(checkpointList.filteredCheckpoints) : Len(Val(cp.Date)) < 3
    /\ Len(checkpointList.filteredCheckpoints) >= 2

----------------------------------------------------------------------------
(* Properties of the map page's markers *)

\* C22: while markers are added for one map session the geocoding service is
\* queried at most once per distinct (city, state) pair, and no geocoding
\* result is written to the store.
C22_GeocodeOncePerPair ==
    geo.page = "addMarkers" =>
        /\ \A i, j \in DOMAIN geo.requests : i # j => geo.requests[i] # geo.requests[j]
        /\ table = {}

----------------------------------------------------------------------------
(* Properties of the WebView map *)

\* The message is not valid JSON, or is a marker click on an id the
\* checkpoints prop does not have.
Rejected(data) ==
    \/ data.kind = "notJSON"
    \/ data.kind = "object" /\ data.type = "markerClick"
           /\ data.checkpointId \notin MapCheckpointIds

\* This step handles the oldest posted message.
Handles ==
    /\ webview.page = "running"
    /\ webview.messages # <<>>
    /\ webview'.messages = Tail(webview.messages)

\* C30: once the page's script has run, isLoading becomes false on every
\* path (map load, map error, the script missing after the 10-second wait,
\* the 5-second fallback timer), timers firing and messages being delivered;
\* and handling a message that is not valid JSON or names an unknown
\* checkpoint id changes no state and calls no marker-click handler.
C30_OverlayRemoved ==
    /\ (webview.page = "running") ~> (webview.page = "running" /\ ~webview.isLoading)
    /\ [][(Handles /\ Rejected(Head(webview.messages))) =>
              webview' = [webview EXCEPT !.messages = Tail(@)]]_vars

\* On iOS the script was missing: the overlay went after the 10-second
\* timer's mapError, and a click on an unknown id had called no handler.
C30_Witness ==
    /\ webview.page = "running"
    /\ webview.platform = "ios"
    /\ ~webview.mapboxgl
    /\ ~webview.timeout
    /\ webview.handler
    /\ webview.injected > 0
    /\ webview.messages = <<>>
    /\ webview.clicks = <<>>
    /\ ~webview.isLoading

====
